---- MODULE Spec2Model ----
(***************************************************************************)
(* Model of dw-lazy-list (src/dw-lazy-list.js): the element that sets      *)
(* `active` on its light-DOM children from the scroll geometry, its        *)
(* output attributes has-scroll / scroll-top / scroll-bottom, and the      *)
(* timers behind refresh() and scrollToBottom().                           *)
(*                                                                         *)
(* Lengths are CSS pixels.  prerenderItemsPercentages is kept in halves    *)
(* (1 stands for the default 0.5), so every comparison of refresh() is     *)
(* made on doubled lengths and stays in the integers.                      *)
(***************************************************************************)
EXTENDS Integers, FiniteSets, Sequences, TLC

(* ------------------------------ bounds -------------------------------- *)

\* Number of children of the list (this.children.length).
NumItems == 3

\* Largest initialItemsCount the host sets.
MaxInitialItemsCount == 2

\* Largest prerenderItemsCount the host sets.
MaxPrerenderItemsCount == 1

Idx == 0 .. (NumItems - 1)

\* offsetTop / offsetLeft of a child, scrollTop, offsetHeight, scrollHeight.
OffsetValues == {0, 500, 1500}
ScrollValues == {0, 600}
ViewportValues == {0, 400}
ContentValues == {0, 400, 1000}

\* prerenderItemsPercentages in halves: 0 and the default 0.5.
PercentageHalves == {0, 1}

\* A property the constructor never assigns reads as undefined.
Undefined == -1

\* The wait of the debounce around refresh().
RefreshWait == 50

\* Lengths of time that pass in one step of the clock.
TickSteps == {20, 30}

VARIABLES
    direction,                  \* 'VERTICAL' | 'HORIZONTAL'
    initialItemsCount,
    prerenderItemsPercentages,  \* in halves
    prerenderItemsCount,        \* Undefined or a number
    nonContinuous,
    scrollTarget,               \* the scrolling element's geometry
    children,                   \* Idx -> [active, offsetTop, offsetLeft]
    _hasScroll,
    _scrollTop,
    _scrollBottom,
    connected,                  \* the resize and scroll listeners are attached
    firstUpdate,                \* "no" | "pending" | "done": firstUpdated()'s promise
    refreshTimer,               \* Undefined, or the time left on refresh's debounce
    _scrollToBottomDebouncer,   \* "undefined" | "idle" | "pending"
    recheck,                    \* the debouncer's updateComplete.then() is pending
    recheckTimers,              \* number of scroll-to-bottom timers outstanding
    lastRun,                    \* history of the most recent engine run
    burst,                      \* history of the calls of the debounced refresh
    lastCall                    \* history of the most recent call of a method

vars == << direction, initialItemsCount, prerenderItemsPercentages,
           prerenderItemsCount, nonContinuous, scrollTarget, children,
           _hasScroll, _scrollTop, _scrollBottom, connected, firstUpdate,
           refreshTimer, _scrollToBottomDebouncer, recheck, recheckTimers,
           lastRun, burst, lastCall >>

config == << direction, initialItemsCount, prerenderItemsPercentages,
             prerenderItemsCount, nonContinuous >>

flags == << _hasScroll, _scrollTop, _scrollBottom >>

\* The lifecycle and the timers.
sched == << connected, firstUpdate, refreshTimer, _scrollToBottomDebouncer,
            recheck, burst >>

\* The timers of scrollToBottom() and the record of the calls.
calls == << recheckTimers, lastCall >>

(* --------------------------- geometry reads --------------------------- *)

_findContentLength ==
    IF direction = "VERTICAL" THEN scrollTarget.scrollHeight
                              ELSE scrollTarget.scrollWidth

_findScorllLength ==
    IF direction = "VERTICAL" THEN scrollTarget.scrollTop
                              ELSE scrollTarget.scrollLeft

_findViewportLength ==
    IF direction = "VERTICAL" THEN scrollTarget.offsetHeight
                              ELSE scrollTarget.offsetWidth

_findLazyChildren == children

elStartPos(element) ==
    IF direction = "VERTICAL" THEN element.offsetTop ELSE element.offsetLeft

ActiveFlags == [i \in Idx |-> children[i].active]

(* ------------------------- _refreshScrollProps ------------------------ *)

\* Variant: has-scroll taken with >= in place of >.
HasScrollOfInclusive(contentLength, viewportLength) ==
    contentLength >= viewportLength

HasScrollOf(contentLength, viewportLength) == contentLength > viewportLength

ScrollTopOf(hasScroll, scrollLength) == hasScroll /\ scrollLength = 0

\* Variant: scroll-bottom is set without regard to has-scroll.
ScrollBottomOfAlone(hasScroll, contentLength, viewportLength, scrollLength) ==
    contentLength = viewportLength + scrollLength

ScrollBottomOf(hasScroll, contentLength, viewportLength, scrollLength) ==
    hasScroll /\ contentLength = viewportLength + scrollLength

_refreshScrollProps(viewportLength, scrollLength) ==
    LET contentLength == _findContentLength
        hasScroll == HasScrollOf(contentLength, viewportLength)
    IN  /\ _hasScroll' = hasScroll
        /\ _scrollTop' = ScrollTopOf(hasScroll, scrollLength)
        /\ _scrollBottom' =
               ScrollBottomOf(hasScroll, contentLength, viewportLength, scrollLength)

(* ------------------------------ the scans ----------------------------- *)

\* Variant: the initial items stop one short.
InInitialItemsShort(index, count) == count # 0 /\ index + 1 < count

\* `self.initialItemsCount && index < self.initialItemsCount`
InInitialItems(index, count) == count # 0 /\ index < count

\* The window of one refresh() run, on doubled lengths.
Window(viewportLength, scrollLength, percentageHalves) ==
    LET viewportBottom == scrollLength + viewportLength
        viewportTop == scrollLength - viewportLength
    IN  [ viewportBottom2 |-> 2 * viewportBottom,
          viewportTop2 |-> 2 * viewportTop,
          viewportExtendedBottom2 |->
              2 * viewportBottom + viewportLength * percentageHalves,
          viewportExtendedTop2 |->
              2 * viewportTop - viewportLength * percentageHalves ]

\* Variant: the near side of the window is not tested.
InNonContinuousWindowFarOnly(pos, w) == 2 * pos < w.viewportExtendedBottom2

\* The nonContinuous test of one element.
InNonContinuousWindow(pos, w) ==
    /\ 2 * pos < w.viewportExtendedBottom2
    /\ (2 * pos > w.viewportTop2 \/ 2 * pos > w.viewportExtendedTop2)

\* element.active after the nonContinuous branch.
NonContinuousActive(old, pos, w) ==
    IF InNonContinuousWindow(pos, w) THEN TRUE ELSE old

\* `elStartPos < viewportBottom`
InViewport(pos, w) == 2 * pos < w.viewportBottom2

\* lastVisibleElementInViewport after the viewport test of element `index`.
LastVisibleAfter(last, index, pos, w) ==
    IF InViewport(pos, w) THEN index ELSE last

\* Variant: the count margin taken with < in place of <=.
InPrerenderCountStrict(index, last, count) ==
    count # Undefined /\ index < last + count

\* `index <= lastVisibleElementInViewport + self.prerenderItemsCount`:
\* with prerenderItemsCount undefined the sum is NaN and the test is false.
InPrerenderCount(index, last, count) ==
    count # Undefined /\ index <= last + count

\* Variant: the extended bottom taken with <= in place of <.
InContinuousRangeInclusive(index, pos, last, count, w) ==
    \/ 2 * pos <= w.viewportExtendedBottom2
    \/ InPrerenderCount(index, last, count)

\* The test that keeps the continuous scan going.
InContinuousRange(index, pos, last, count, w) ==
    \/ 2 * pos < w.viewportExtendedBottom2
    \/ InPrerenderCount(index, last, count)

\* forEach of initialItemRefresh(): returning false ends lodash's forEach.
RECURSIVE InitialScan(_, _, _)
InitialScan(index, act, count) ==
    IF index >= NumItems THEN act
    ELSE IF act[index] THEN InitialScan(index + 1, act, count)
    ELSE IF InInitialItems(index, count)
         THEN InitialScan(index + 1, [act EXCEPT ![index] = TRUE], count)
    ELSE act

\* Variant: active is bound to the outcome of the tests instead of latched.
ScanStepRebind(index, act, last, p) ==
    IF InInitialItems(index, p.initialItemsCount)
    THEN [active |-> [act EXCEPT ![index] = TRUE], last |-> last, go |-> TRUE]
    ELSE IF p.nonContinuous
         THEN [ active |-> [act EXCEPT ![index] =
                    InNonContinuousWindow(p.pos[index], p.window)],
                last |-> last, go |-> TRUE ]
    ELSE LET last2 == LastVisibleAfter(last, index, p.pos[index], p.window)
             inRange == InContinuousRange(index, p.pos[index], last2,
                                     p.prerenderItemsCount, p.window)
         IN  [active |-> [act EXCEPT ![index] = inRange], last |-> last2, go |-> inRange]

\* Variant: an element that is already active becomes the last visible one.
ScanStepCreep(index, act, last, p) ==
    IF act[index] THEN [active |-> act, last |-> index, go |-> TRUE]
    ELSE IF InInitialItems(index, p.initialItemsCount)
         THEN [active |-> [act EXCEPT ![index] = TRUE], last |-> last, go |-> TRUE]
    ELSE IF p.nonContinuous
         THEN [ active |-> [act EXCEPT ![index] =
                    NonContinuousActive(act[index], p.pos[index], p.window)],
                last |-> last, go |-> TRUE ]
    ELSE LET last2 == LastVisibleAfter(last, index, p.pos[index], p.window)
         IN  IF InContinuousRange(index, p.pos[index], last2,
                                  p.prerenderItemsCount, p.window)
             THEN [ active |-> [act EXCEPT ![index] = TRUE],
                    last |-> last2, go |-> TRUE ]
             ELSE [active |-> act, last |-> last2, go |-> FALSE]

\* Variant: the nonContinuous branch is missing.
ScanStepNoMode(index, act, last, p) ==
    IF act[index] THEN [active |-> act, last |-> last, go |-> TRUE]
    ELSE IF InInitialItems(index, p.initialItemsCount)
         THEN [active |-> [act EXCEPT ![index] = TRUE], last |-> last, go |-> TRUE]
    ELSE LET last2 == LastVisibleAfter(last, index, p.pos[index], p.window)
         IN  IF InContinuousRange(index, p.pos[index], last2,
                                  p.prerenderItemsCount, p.window)
             THEN [ active |-> [act EXCEPT ![index] = TRUE],
                    last |-> last2, go |-> TRUE ]
             ELSE [active |-> act, last |-> last2, go |-> FALSE]

\* Variant: the iteratee never returns false.
ScanStepNoBreak(index, act, last, p) ==
    IF act[index] THEN [active |-> act, last |-> last, go |-> TRUE]
    ELSE IF InInitialItems(index, p.initialItemsCount)
         THEN [active |-> [act EXCEPT ![index] = TRUE], last |-> last, go |-> TRUE]
    ELSE IF p.nonContinuous
         THEN [ active |-> [act EXCEPT ![index] =
                    NonContinuousActive(act[index], p.pos[index], p.window)],
                last |-> last, go |-> TRUE ]
    ELSE LET last2 == LastVisibleAfter(last, index, p.pos[index], p.window)
         IN  IF InContinuousRange(index, p.pos[index], last2,
                                  p.prerenderItemsCount, p.window)
             THEN [ active |-> [act EXCEPT ![index] = TRUE],
                    last |-> last2, go |-> TRUE ]
             ELSE [active |-> act, last |-> last2, go |-> TRUE]

\* Variant: every element is judged by the nonContinuous test.
ScanStepLocal(index, act, last, p) ==
    IF act[index] THEN [active |-> act, last |-> last, go |-> TRUE]
    ELSE IF InInitialItems(index, p.initialItemsCount)
         THEN [active |-> [act EXCEPT ![index] = TRUE], last |-> last, go |-> TRUE]
    ELSE [ active |-> [act EXCEPT ![index] =
               NonContinuousActive(act[index], p.pos[index], p.window)],
           last |-> last, go |-> TRUE ]

\* The iteratee of refresh()'s forEach on element `index`: the active flags
\* and lastVisibleElementInViewport it leaves, and the value it returns (go).
\* p holds what the run read before the scan.
ScanStep(index, act, last, p) ==
    IF act[index] THEN [active |-> act, last |-> last, go |-> TRUE]
    ELSE IF InInitialItems(index, p.initialItemsCount)
         THEN [active |-> [act EXCEPT ![index] = TRUE], last |-> last, go |-> TRUE]
    ELSE IF p.nonContinuous
         THEN [ active |-> [act EXCEPT ![index] =
                    NonContinuousActive(act[index], p.pos[index], p.window)],
                last |-> last, go |-> TRUE ]
    ELSE LET last2 == LastVisibleAfter(last, index, p.pos[index], p.window)
         IN  IF InContinuousRange(index, p.pos[index], last2,
                                  p.prerenderItemsCount, p.window)
             THEN [ active |-> [act EXCEPT ![index] = TRUE],
                    last |-> last2, go |-> TRUE ]
             ELSE [active |-> act, last |-> last2, go |-> FALSE]

\* lodash forEach over the children: a false return ends the iteration.
RECURSIVE RefreshScan(_, _, _, _)
RefreshScan(index, act, last, p) ==
    IF index >= NumItems THEN [active |-> act, last |-> last]
    ELSE LET s == ScanStep(index, act, last, p)
         IN  IF s.go THEN RefreshScan(index + 1, s.active, s.last, p)
             ELSE [active |-> s.active, last |-> s.last]

\* What refresh() reads from the element and the DOM when it runs.
RunInputs(count) ==
    [ initialItemsCount |-> initialItemsCount,
      nonContinuous |-> nonContinuous,
      prerenderItemsCount |-> count,
      pos |-> [i \in Idx |-> elStartPos(children[i])],
      window |-> Window(_findViewportLength, _findScorllLength,
                        prerenderItemsPercentages) ]

RefreshResult(count) == RefreshScan(0, ActiveFlags, 0, RunInputs(count))

WithActive(act) == [i \in Idx |-> [children[i] EXCEPT !.active = act[i]]]

\* lastRun: the operation that ran last, the active flags it found, the final
\* value of lastVisibleElementInViewport, how many times in a row the same
\* operation has now run on unchanged inputs (1 or 2) and, for a repeated
\* run, the output attributes the run before it left.
NoRun ==
    [ op |-> "none", active |-> [i \in Idx |-> FALSE],
      flags |-> << FALSE, FALSE, FALSE >>, last |-> 0, times |-> 0 ]

Ran(op, last) ==
    [ op |-> op, active |-> ActiveFlags,
      flags |-> IF lastRun.op = op THEN flags ELSE << FALSE, FALSE, FALSE >>,
      last |-> last,
      times |-> IF lastRun.op = op THEN 2 ELSE 1 ]

(* ------------------------------ operations ---------------------------- *)

initialItemRefresh ==
    /\ _refreshScrollProps(_findViewportLength, _findScorllLength)
    /\ children' = WithActive(InitialScan(0, ActiveFlags, initialItemsCount))
    /\ lastRun' = Ran("initialItemRefresh", 0)
    /\ UNCHANGED << config, scrollTarget >>

\* The body of refresh(), which the constructor wraps in debounce.
refresh ==
    LET r == RefreshResult(prerenderItemsCount)
    IN  /\ _refreshScrollProps(_findViewportLength, _findScorllLength)
        /\ children' = WithActive(r.active)
        /\ lastRun' = Ran("refresh", r.last)
        /\ UNCHANGED << config, scrollTarget >>

(* --------------------- the page around the element -------------------- *)

\* The user or the host scrolls the list.
Scroll(v) ==
    /\ v # _findScorllLength
    /\ scrollTarget' = [scrollTarget EXCEPT !.scrollTop = v]
    /\ lastRun' = NoRun
    /\ UNCHANGED << config, children, flags >>

\* The list is laid out with another height (it has no border: its
\* clientHeight is its offsetHeight).
Resize(v) ==
    /\ v # _findViewportLength
    /\ scrollTarget' = [scrollTarget EXCEPT !.offsetHeight = v, !.clientHeight = v]
    /\ lastRun' = NoRun
    /\ UNCHANGED << config, children, flags >>

\* The content grows or shrinks.
ContentResize(v) ==
    /\ v # _findContentLength
    /\ scrollTarget' = [scrollTarget EXCEPT !.scrollHeight = v]
    /\ lastRun' = NoRun
    /\ UNCHANGED << config, children, flags >>

\* A child is laid out at another position.
ItemMove(i, v) ==
    /\ v # children[i].offsetTop
    /\ children' = [children EXCEPT ![i].offsetTop = v]
    /\ lastRun' = NoRun
    /\ UNCHANGED << config, scrollTarget, flags >>

(* ----------------------- lifecycle and timers ------------------------ *)

NoBurst == [triggers |-> 0, since |-> RefreshWait, runs |-> 0, scroll |-> 0]

\* Variant: a call while the timer is pending leaves the timer as it is.
DebounceCallKeep(timer) == IF timer = Undefined THEN RefreshWait ELSE timer

\* The time left on the timer after a call of the debounced refresh: lodash
\* invokes the function `wait` after the last call.
DebounceCall(timer) == RefreshWait

\* A call of this.refresh, the debounced function: by the resize listener,
\* the scroll listener or the host.  A call less than RefreshWait after the
\* call before it belongs to the same burst.
Debounced(scrollNow) ==
    /\ refreshTimer' = DebounceCall(refreshTimer)
    /\ burst' = IF burst.triggers >= 1 /\ burst.since < RefreshWait
                THEN [burst EXCEPT !.triggers = 2, !.since = 0]
                ELSE [triggers |-> 1, since |-> 0, runs |-> 0, scroll |-> scrollNow]

\* Variant: the bottom is reached only by scrolling past it.
AtBottomStrict ==
    scrollTarget.scrollTop + scrollTarget.clientHeight > scrollTarget.scrollHeight

\* `scrollTop + clientHeight >= scrollHeight`
AtBottom ==
    scrollTarget.scrollTop + scrollTarget.clientHeight >= scrollTarget.scrollHeight

\* No method has been called since the last step of the page.
NoCall == [op |-> "none", index |-> 0, atBottom |-> FALSE, pending |-> FALSE,
           result |-> "undefined"]

\* The record of a call made in the current state: whether it finds the
\* list at its bottom, and a recheck timer pending.
Called(op, index, result) ==
    [op |-> op, index |-> index, atBottom |-> AtBottom,
     pending |-> _scrollToBottomDebouncer = "pending", result |-> result]

\* Variant: the debouncer in the field is not cancelled.
CancelDebouncerMissing(timers) == timers

\* `self._scrollToBottomDebouncer && self._scrollToBottomDebouncer.cancel()`:
\* the timers left outstanding.
CancelDebouncer(timers) ==
    IF _scrollToBottomDebouncer = "pending" THEN timers - 1 ELSE timers

connectedCallback ==
    /\ ~connected
    /\ connected' = TRUE
    /\ UNCHANGED << config, scrollTarget, children, flags, firstUpdate,
                    refreshTimer, _scrollToBottomDebouncer, recheck, lastRun, burst >>

disconnectedCallback ==
    /\ connected
    /\ connected' = FALSE
    /\ recheckTimers' = CancelDebouncer(recheckTimers)
    /\ _scrollToBottomDebouncer' = "undefined"
    /\ UNCHANGED << config, scrollTarget, children, flags, firstUpdate,
                    refreshTimer, recheck, lastRun, burst >>

firstUpdated ==
    /\ connected
    /\ firstUpdate = "no"
    /\ firstUpdate' = "pending"
    /\ UNCHANGED << config, scrollTarget, children, flags, connected,
                    refreshTimer, _scrollToBottomDebouncer, recheck, lastRun, burst >>

\* updateComplete resolves: the callback of firstUpdated() runs.
InitialUpdateComplete ==
    /\ firstUpdate = "pending"
    /\ firstUpdate' = "done"
    /\ initialItemRefresh
    /\ UNCHANGED << connected, refreshTimer, _scrollToBottomDebouncer, recheck, burst >>

ScrollEvent(v) ==
    /\ connected
    /\ Scroll(v)
    /\ Debounced(v)
    /\ UNCHANGED << connected, firstUpdate, _scrollToBottomDebouncer, recheck >>

ResizeEvent(v) ==
    /\ connected
    /\ Resize(v)
    /\ Debounced(scrollTarget.scrollTop)
    /\ UNCHANGED << connected, firstUpdate, _scrollToBottomDebouncer, recheck >>

\* Content arrives or leaves: no event reaches the element.
ContentChange(v) ==
    /\ connected
    /\ ContentResize(v)
    /\ UNCHANGED sched

\* The host calls refresh().
HostRefresh ==
    /\ connected
    /\ Debounced(scrollTarget.scrollTop)
    /\ UNCHANGED << config, scrollTarget, children, flags, connected, firstUpdate,
                    _scrollToBottomDebouncer, recheck, lastRun >>

\* Time passes, no further than to the expiry of the pending timer.
Tick(d) ==
    /\ refreshTimer # Undefined
    /\ d <= refreshTimer
    /\ refreshTimer' = refreshTimer - d
    /\ burst' = [burst EXCEPT !.since = IF @ + d < RefreshWait THEN @ + d
                                        ELSE RefreshWait]
    /\ UNCHANGED << config, scrollTarget, children, flags, connected, firstUpdate,
                    _scrollToBottomDebouncer, recheck, lastRun >>

\* The debounce timer expires: lodash invokes refresh().
RefreshTimerFires ==
    /\ refreshTimer = 0
    /\ refreshTimer' = Undefined
    /\ burst' = [burst EXCEPT !.runs = IF @ < 2 THEN @ + 1 ELSE @]
    /\ refresh
    /\ UNCHANGED << connected, firstUpdate, _scrollToBottomDebouncer, recheck >>

\* Variant: the assignment of scrollHeight leaves scrollTop where it was.
ScrolledToBottomUnmoved == scrollTarget.scrollTop

\* The value scrollTop takes when scrollHeight is assigned to it: the
\* browser keeps it within the scrollable range.
ScrolledToBottom ==
    IF scrollTarget.scrollHeight > scrollTarget.clientHeight
    THEN scrollTarget.scrollHeight - scrollTarget.clientHeight
    ELSE 0

\* The body of scrollToBottom(); the scroll it makes reaches the scroll
\* listener while the element is connected.
scrollToBottom ==
    IF AtBottom
    THEN UNCHANGED << scrollTarget, _scrollToBottomDebouncer, recheckTimers,
                      refreshTimer, burst, lastRun >>
    ELSE /\ scrollTarget' = [scrollTarget EXCEPT !.scrollTop = ScrolledToBottom]
         /\ recheckTimers' = (LET left == CancelDebouncer(recheckTimers)
                              IN  IF left < 2 THEN left + 1 ELSE left)
         /\ _scrollToBottomDebouncer' = "pending"
         /\ lastRun' = NoRun
         /\ IF connected THEN Debounced(ScrolledToBottom)
                         ELSE UNCHANGED << refreshTimer, burst >>

\* The host calls scrollToBottom().
HostScrollToBottom ==
    /\ connected
    /\ lastCall' = Called("scrollToBottom", 0, "undefined")
    /\ scrollToBottom
    /\ UNCHANGED << config, children, flags, connected, firstUpdate, recheck >>

\* The 2000 ms of the scroll-to-bottom debouncer are over.
ScrollToBottomTimerFires ==
    /\ _scrollToBottomDebouncer = "pending"
    /\ ~recheck
    /\ _scrollToBottomDebouncer' = "idle"
    /\ recheckTimers' = recheckTimers - 1
    /\ recheck' = TRUE
    /\ UNCHANGED << config, scrollTarget, children, flags, connected, firstUpdate,
                    refreshTimer, lastRun, burst >>

\* updateComplete resolves: the callback of the debouncer runs.
RecheckUpdateComplete ==
    /\ recheck
    /\ recheck' = FALSE
    /\ lastCall' = Called("recheck", 0, "undefined")
    /\ scrollToBottom
    /\ UNCHANGED << config, children, flags, connected, firstUpdate >>

(* ------------------------------ navigation ---------------------------- *)

\* The value scrollTop takes when v is assigned to it: the browser keeps it
\* within the scrollable range.
ScrollTopAssigned(v) ==
    LET range == IF scrollTarget.scrollHeight > scrollTarget.clientHeight
                 THEN scrollTarget.scrollHeight - scrollTarget.clientHeight
                 ELSE 0
    IN  IF v > range THEN range ELSE v

\* The body of scrollToIndex(index); the scroll it makes reaches the scroll
\* listener while the element is connected.
scrollToIndex(index) ==
    IF index \in DOMAIN _findLazyChildren
    THEN LET row == _findLazyChildren[index]
             top == ScrollTopAssigned(row.offsetTop)
         IN  /\ scrollTarget' = [scrollTarget EXCEPT !.scrollTop = top]
             /\ lastRun' = NoRun
             /\ IF connected /\ top # scrollTarget.scrollTop
                THEN Debounced(IF direction = "VERTICAL" THEN top
                                                         ELSE scrollTarget.scrollLeft)
                ELSE UNCHANGED << refreshTimer, burst >>
    ELSE UNCHANGED << scrollTarget, refreshTimer, burst, lastRun >>

\* The host calls scrollToIndex(index), with an index of the list or the
\* first index past its end.
HostScrollToIndex(index) ==
    /\ lastCall' = Called("scrollToIndex", index, "undefined")
    /\ scrollToIndex(index)
    /\ UNCHANGED << config, children, flags, connected, firstUpdate,
                    _scrollToBottomDebouncer, recheck, recheckTimers >>

canScrollTop == _findScorllLength > 0

\* The methods the class DwLazyList defines for its host.
Methods == {"refresh", "scrollToBottom", "canScrollTop", "scrollToIndex"}

\* The methods the README lists.
DocumentedMethods ==
    {"refresh", "scrollToBottom", "canScrollTop", "canScrollBottom", "scrollToIndex"}

\* The two queries of the README.
Queries == {"canScrollTop", "canScrollBottom"}

\* The host calls a query the README lists: a call of a method the class
\* does not define throws a TypeError.
HostQuery(m) ==
    /\ m \in DocumentedMethods
    /\ lastCall' = Called(m, 0, IF m \notin Methods THEN "TypeError"
                                ELSE IF canScrollTop THEN "true" ELSE "false")
    /\ UNCHANGED << config, scrollTarget, children, flags, sched, recheckTimers,
                    lastRun >>

\* The user scrolls the list along its direction.
AxisScroll(v) ==
    /\ v # _findScorllLength
    /\ scrollTarget' = IF direction = "VERTICAL"
                       THEN [scrollTarget EXCEPT !.scrollTop = v]
                       ELSE [scrollTarget EXCEPT !.scrollLeft = v]
    /\ lastRun' = NoRun
    /\ IF connected THEN Debounced(v) ELSE UNCHANGED << refreshTimer, burst >>
    /\ UNCHANGED << config, children, flags, connected, firstUpdate,
                    _scrollToBottomDebouncer, recheck >>

\* The list is laid out with another length along its direction.
AxisResize(v) ==
    /\ v # _findViewportLength
    /\ scrollTarget' = IF direction = "VERTICAL"
                       THEN [scrollTarget EXCEPT !.offsetHeight = v, !.clientHeight = v]
                       ELSE [scrollTarget EXCEPT !.offsetWidth = v]
    /\ lastRun' = NoRun
    /\ IF connected THEN Debounced(_findScorllLength)
                    ELSE UNCHANGED << refreshTimer, burst >>
    /\ UNCHANGED << config, children, flags, connected, firstUpdate,
                    _scrollToBottomDebouncer, recheck >>

\* The content grows or shrinks along the direction of the list.
AxisContentResize(v) ==
    /\ v # _findContentLength
    /\ scrollTarget' = IF direction = "VERTICAL"
                       THEN [scrollTarget EXCEPT !.scrollHeight = v]
                       ELSE [scrollTarget EXCEPT !.scrollWidth = v]
    /\ lastRun' = NoRun
    /\ UNCHANGED << config, children, flags, sched >>

(* ---------------------------- specifications -------------------------- *)

NoGeometry ==
    [ scrollTop |-> 0, scrollLeft |-> 0, offsetHeight |-> 0, offsetWidth |-> 0,
      clientHeight |-> 0, scrollHeight |-> 0, scrollWidth |-> 0 ]

InitFields ==
    /\ scrollTarget = NoGeometry
    /\ _hasScroll = FALSE
    /\ _scrollTop = FALSE
    /\ _scrollBottom = FALSE
    /\ connected = FALSE
    /\ firstUpdate = "no"
    /\ refreshTimer = Undefined
    /\ _scrollToBottomDebouncer = "undefined"
    /\ recheck = FALSE
    /\ recheckTimers = 0
    /\ lastRun = NoRun
    /\ burst = NoBurst
    /\ lastCall = NoCall

InitElement ==
    /\ direction = "VERTICAL"
    /\ InitFields

\* The engine by itself: the host has set the properties, and the two runs
\* happen at any time, on any geometry.
Init ==
    /\ InitElement
    /\ initialItemsCount \in 0 .. MaxInitialItemsCount
    /\ prerenderItemsPercentages \in PercentageHalves
    /\ prerenderItemsCount \in {Undefined} \cup (0 .. MaxPrerenderItemsCount)
    /\ nonContinuous \in BOOLEAN
    /\ children = [i \in Idx |->
                      [active |-> FALSE, offsetTop |-> 0, offsetLeft |-> 0]]

Next ==
    \/ initialItemRefresh /\ UNCHANGED << sched, calls >>
    \/ refresh /\ UNCHANGED << sched, calls >>
    \/ \E v \in ScrollValues : Scroll(v) /\ UNCHANGED << sched, calls >>
    \/ \E v \in ViewportValues : Resize(v) /\ UNCHANGED << sched, calls >>
    \/ \E v \in ContentValues : ContentResize(v) /\ UNCHANGED << sched, calls >>
    \/ \E i \in Idx, v \in OffsetValues : ItemMove(i, v) /\ UNCHANGED << sched, calls >>

Spec == Init /\ [][Next]_vars

\* The element in a page: the constructor's defaults but for
\* initialItemsCount (1) and nonContinuous, children 500 apart, and the
\* listeners, promises and timers that start the runs.
InitSched ==
    /\ InitElement
    /\ initialItemsCount = 1
    /\ prerenderItemsPercentages = 1
    /\ prerenderItemsCount = Undefined
    /\ nonContinuous \in BOOLEAN
    /\ children = [i \in Idx |->
                      [active |-> FALSE, offsetTop |-> 500 * i, offsetLeft |-> 0]]

\* A step that is no call of a method and touches no scroll-to-bottom timer.
Quiet == recheckTimers' = recheckTimers /\ lastCall' = NoCall

NextSched ==
    \/ connectedCallback /\ Quiet
    \/ disconnectedCallback /\ lastCall' = NoCall
    \/ firstUpdated /\ Quiet
    \/ InitialUpdateComplete /\ Quiet
    \/ \E v \in ScrollValues : ScrollEvent(v) /\ Quiet
    \/ \E v \in ViewportValues : ResizeEvent(v) /\ Quiet
    \/ \E v \in ContentValues : ContentChange(v) /\ Quiet
    \/ HostRefresh /\ Quiet
    \/ \E d \in TickSteps : Tick(d) /\ Quiet
    \/ RefreshTimerFires /\ Quiet
    \/ HostScrollToBottom
    \/ ScrollToBottomTimerFires /\ lastCall' = NoCall
    \/ RecheckUpdateComplete

SpecSched == InitSched /\ [][NextSched]_vars

\* The methods of navigation, on a list of either direction whose children
\* are laid out 500 px apart along it.
InitNav ==
    /\ direction \in {"VERTICAL", "HORIZONTAL"}
    /\ InitFields
    /\ initialItemsCount = 1
    /\ prerenderItemsPercentages = 1
    /\ prerenderItemsCount = Undefined
    /\ nonContinuous = FALSE
    /\ children = [i \in Idx |->
                      [active |-> FALSE,
                       offsetTop |-> IF direction = "VERTICAL" THEN 500 * i ELSE 0,
                       offsetLeft |-> IF direction = "VERTICAL" THEN 0 ELSE 500 * i]]

NextNav ==
    \/ connectedCallback /\ Quiet
    \/ \E v \in ScrollValues : AxisScroll(v) /\ Quiet
    \/ \E v \in ViewportValues : AxisResize(v) /\ Quiet
    \/ \E v \in ContentValues : AxisContentResize(v) /\ Quiet
    \/ \E d \in TickSteps : Tick(d) /\ Quiet
    \/ RefreshTimerFires /\ Quiet
    \/ \E index \in 0 .. NumItems : HostScrollToIndex(index)
    \/ \E m \in Queries : HostQuery(m)

SpecNav == InitNav /\ [][NextNav]_vars

\* scrollHeight of a list whose content arrives in pieces.
GrownValues == {400, 1000, 1600}

\* Content arrives: the list grows, and no event reaches the element.
ContentGrows(v) ==
    /\ v > scrollTarget.scrollHeight
    /\ ContentResize(v)
    /\ UNCHANGED sched

\* A list 400 px high that is filled while its host keeps it scrolled to
\* the bottom: the content only grows, and nothing else scrolls the list.
InitRetry ==
    /\ InitSched
    /\ nonContinuous = FALSE

NextRetry ==
    \/ connectedCallback /\ Quiet
    \/ \E v \in ViewportValues : (v > 0 /\ ResizeEvent(v) /\ Quiet)
    \/ \E v \in GrownValues : ContentGrows(v) /\ Quiet
    \/ \E d \in TickSteps : Tick(d) /\ Quiet
    \/ RefreshTimerFires /\ Quiet
    \/ HostScrollToBottom
    \/ ScrollToBottomTimerFires /\ lastCall' = NoCall
    \/ RecheckUpdateComplete

\* An armed timer expires, and a resolved promise runs its continuation.
SpecRetry ==
    /\ InitRetry
    /\ [][NextRetry]_vars
    /\ WF_vars(ScrollToBottomTimerFires /\ lastCall' = NoCall)
    /\ WF_vars(RecheckUpdateComplete)

(* ------------------------------- claims ------------------------------- *)

\* What the formulas below read of the geometry, along the list's axis.
S == _findScorllLength
V == _findViewportLength
C == _findContentLength
Pos(i) == elStartPos(children[i])

\* An element the last run found inactive and past the initial items.
Candidate(i) == ~lastRun.active[i] /\ ~(i < initialItemsCount)

\* An element the last run has set active.
NewlyActive(i) == children[i].active /\ ~lastRun.active[i]

\* C1: active is a one-way latch: no step of the element, whatever the
\* scroll offset, the extents and the positions have become, takes an
\* element's active from true to false.
ActiveIsLatch ==
    [][\A i \in Idx : children[i].active => children'[i].active]_vars

\* A refresh() run in nonContinuous mode has met an active element that is
\* past the initial items and outside the window, and left it active.
ActiveIsLatchWitness ==
    \E i \in Idx :
        /\ lastRun.op = "refresh" /\ nonContinuous
        /\ lastRun.active[i] /\ children[i].active
        /\ ~(i < initialItemsCount)
        /\ ~(2 * Pos(i) < 2 * (S + V) + V * prerenderItemsPercentages)

\* C2: after initialItemRefresh() and after every refresh() run, every
\* element with index < initialItemsCount is active, whatever the geometry
\* and the mode.
InitialFloor ==
    lastRun.op # "none" =>
        \A i \in Idx : i < initialItemsCount => children[i].active

\* initialItemRefresh() has run on a list of viewport length 0 and set the
\* initial items, and only those, active.
InitialFloorWitness ==
    /\ lastRun.op = "initialItemRefresh"
    /\ V = 0
    /\ initialItemsCount >= 1
    /\ \A i \in Idx : ~lastRun.active[i]
    /\ \A i \in Idx : children[i].active <=> i < initialItemsCount
    /\ \E i \in Idx : ~children[i].active

\* C3: a refresh() run in nonContinuous mode sets an inactive element past
\* the initial items active if and only if its position is below the
\* extended bottom and above the viewport top or the extended top; every
\* element is judged, whatever the outcome for the elements before it.
NonContinuousLocal ==
    (lastRun.op = "refresh" /\ nonContinuous) =>
        \A i \in Idx :
            Candidate(i) =>
                ( children[i].active <=>
                    /\ 2 * Pos(i) < 2 * (S + V) + V * prerenderItemsPercentages
                    /\ \/ Pos(i) > S - V
                       \/ 2 * Pos(i) > 2 * (S - V) - V * prerenderItemsPercentages )

\* A nonContinuous run has left an element inactive and set the next one
\* active.
NonContinuousLocalWitness ==
    \E i \in Idx :
        /\ i + 1 \in Idx
        /\ lastRun.op = "refresh" /\ nonContinuous
        /\ Candidate(i) /\ Candidate(i + 1)
        /\ ~children[i].active
        /\ children[i + 1].active

\* C4: a refresh() run in continuous mode with prerenderItemsCount set
\* sets an inactive element past the initial items whose position is not
\* below the extended bottom active if and only if its index is at most
\* lastVisibleElementInViewport + prerenderItemsCount.
ContinuousTrailingMargin ==
    (lastRun.op = "refresh" /\ ~nonContinuous /\ prerenderItemsCount # Undefined) =>
        \A i \in Idx :
            ( /\ Candidate(i)
              /\ 2 * Pos(i) >= 2 * (S + V) + V * prerenderItemsPercentages ) =>
                (children[i].active <=> i <= lastRun.last + prerenderItemsCount)

\* The run met a visible inactive element L; of two later elements at one
\* position past the extended bottom, element L + prerenderItemsCount was
\* set active and element L + prerenderItemsCount + 1 was not.
ContinuousTrailingMarginWitness ==
    \E i \in Idx :
        /\ i + 1 \in Idx
        /\ lastRun.op = "refresh" /\ ~nonContinuous
        /\ prerenderItemsCount >= 1
        /\ Candidate(lastRun.last) /\ Pos(lastRun.last) < S + V
        /\ i = lastRun.last + prerenderItemsCount
        /\ Candidate(i) /\ Candidate(i + 1)
        /\ Pos(i) = Pos(i + 1)
        /\ 2 * Pos(i) >= 2 * (S + V) + V * prerenderItemsPercentages
        /\ children[i].active
        /\ ~children[i + 1].active

\* C5: a run repeated on unchanged children, geometry and configuration
\* leaves the active flags and has-scroll / scroll-top / scroll-bottom as
\* the run before it left them.
RunIsIdempotent ==
    lastRun.times = 2 => (ActiveFlags = lastRun.active /\ flags = lastRun.flags)

\* refresh() has run twice in a row in continuous mode with the count margin
\* in use, on a list with an element it set active and one it left inactive.
RunIsIdempotentWitness ==
    /\ lastRun.op = "refresh" /\ lastRun.times = 2
    /\ ~nonContinuous
    /\ prerenderItemsCount >= 1
    /\ _hasScroll
    /\ \E i \in Idx : children[i].active /\ ~(i < initialItemsCount)
    /\ \E i \in Idx : ~children[i].active

\* C6: after every run the three output attributes are the functions of the
\* content length, viewport length and scroll length the run read:
\* has-scroll = content > viewport, scroll-top = has-scroll and scroll = 0,
\* scroll-bottom = has-scroll and content = viewport + scroll.
BoundaryFlags ==
    lastRun.op # "none" =>
        /\ _hasScroll = (C > V)
        /\ _scrollTop = (C > V /\ S = 0)
        /\ _scrollBottom = (C > V /\ C = V + S)

\* Content 1000, viewport 400, scroll 600: the run found the bottom.
BoundaryFlagsWitness ==
    /\ lastRun.op = "refresh"
    /\ C = 1000 /\ V = 400 /\ S = 600
    /\ _hasScroll /\ ~_scrollTop /\ _scrollBottom

\* C7 as stated: once disconnectedCallback() has run, no debounced
\* refresh() and no scroll-to-bottom recheck is pending on a timer.
TeardownLeavesNoTimer ==
    ~connected =>
        /\ refreshTimer = Undefined
        /\ _scrollToBottomDebouncer # "pending"

\* A call of the debounced refresh: the step that starts or extends a burst.
IsDebouncedCall == burst' # burst /\ burst'.since = 0

\* C8: the scroll listener, the resize listener and the host's refresh()
\* never run the engine themselves; calls that follow one another by less
\* than RefreshWait make one run, RefreshWait after the last of them; and
\* the run's outcome is that of the scroll offset, extents and positions
\* at the moment of the run.
DebounceCoalesces ==
    /\ [][IsDebouncedCall => (ActiveFlags' = ActiveFlags /\ flags' = flags)]_vars
    /\ [](refreshTimer # Undefined =>
            /\ burst.triggers >= 1
            /\ burst.runs = 0
            /\ refreshTimer = RefreshWait - burst.since)
    /\ []((refreshTimer = Undefined /\ burst.triggers >= 1) => burst.runs = 1)
    /\ [](lastRun.op = "refresh" =>
            /\ _hasScroll = (scrollTarget.scrollHeight > scrollTarget.offsetHeight)
            /\ _scrollTop = (_hasScroll /\ scrollTarget.scrollTop = 0)
            /\ _scrollBottom =
                   ( /\ _hasScroll
                     /\ scrollTarget.scrollHeight
                            = scrollTarget.offsetHeight + scrollTarget.scrollTop )
            /\ ActiveFlags =
                   RefreshScan(0, lastRun.active, 0,
                               RunInputs(prerenderItemsCount)).active)

\* A burst of two calls has made its one run; the burst began at another
\* scroll offset than the run found, and the run set the scroll-bottom
\* attribute and an element active that lay outside the window when the
\* burst began.
DebounceCoalescesWitness ==
    /\ lastRun.op = "refresh"
    /\ refreshTimer = Undefined
    /\ burst.triggers = 2 /\ burst.runs = 1
    /\ burst.scroll # scrollTarget.scrollTop
    /\ _scrollBottom
    /\ \E i \in Idx :
           /\ NewlyActive(i) /\ ~(i < initialItemsCount)
           /\ 2 * Pos(i) >= 2 * (burst.scroll + V) + V * prerenderItemsPercentages

\* C9: in nonContinuous mode prerenderItemsCount is not consulted: the
\* active flags a refresh() run leaves are those the same run leaves with
\* any other value of prerenderItemsCount, undefined included.
NonContinuousIgnoresCount ==
    (lastRun.op = "refresh" /\ nonContinuous) =>
        \A c \in {Undefined} \cup (0 .. MaxPrerenderItemsCount) :
            RefreshScan(0, lastRun.active, 0, RunInputs(c)).active = ActiveFlags

\* A nonContinuous run with prerenderItemsCount set has set an element
\* active and left inactive one that the count margin would have reached,
\* on inputs where the continuous outcome depends on the count.
NonContinuousIgnoresCountWitness ==
    /\ lastRun.op = "refresh" /\ nonContinuous
    /\ prerenderItemsCount >= 1
    /\ \E i \in Idx : NewlyActive(i) /\ ~(i < initialItemsCount)
    /\ \E i \in Idx :
           Candidate(i) /\ ~children[i].active /\ i <= prerenderItemsCount
    /\ RefreshScan(0, lastRun.active, 0,
                   [RunInputs(prerenderItemsCount) EXCEPT !.nonContinuous = FALSE]).active
       # RefreshScan(0, lastRun.active, 0,
                     [RunInputs(Undefined) EXCEPT !.nonContinuous = FALSE]).active

\* C10 as stated: a run on a viewport of length 0 leaves has-scroll false
\* and sets no element past the initial items active.
ZeroViewportOnlyFloor ==
    (lastRun.op # "none" /\ V = 0) =>
        /\ ~_hasScroll
        /\ \A i \in Idx : NewlyActive(i) => i < initialItemsCount

\* C10 as amended: on a viewport of length 0 has-scroll is content > 0, and
\* an element past the initial items is set active only by a continuous
\* refresh() run, and only if its position is below the scroll offset or
\* its index is within the count margin.
ZeroViewportWindow ==
    (lastRun.op # "none" /\ V = 0) =>
        /\ _hasScroll = (C > 0)
        /\ \A i \in Idx :
               (NewlyActive(i) /\ ~(i < initialItemsCount)) =>
                   /\ lastRun.op = "refresh"
                   /\ ~nonContinuous
                   /\ \/ Pos(i) < S
                      \/ /\ prerenderItemsCount # Undefined
                         /\ i <= lastRun.last + prerenderItemsCount

\* A continuous run on a viewport of length 0, scrolled to 600: has-scroll
\* is set and an element positioned above the scroll offset became active.
ZeroViewportWindowWitness ==
    /\ lastRun.op = "refresh" /\ ~nonContinuous
    /\ V = 0 /\ S > 0
    /\ _hasScroll
    /\ \E i \in Idx : NewlyActive(i) /\ ~(i < initialItemsCount) /\ Pos(i) < S

\* The offset the scroll along the direction can reach when pos is asked for.
Reachable(pos) == IF C > V /\ pos > C - V THEN C - V ELSE IF C > V THEN pos ELSE 0

\* C11: after scrollToIndex(i) on an item i of the list, the scroll offset
\* along the direction of the list is the offset of item i, as far as the
\* scrollable range allows.
ScrollToIndexAlongDirection ==
    (lastCall.op = "scrollToIndex" /\ lastCall.index \in Idx)
        => S = Reachable(Pos(lastCall.index))

\* scrollToIndex(i) with i past the end of the list changes no scroll
\* offset, no active flag and no timer.
ScrollToIndexOutOfRange ==
    [][(lastCall'.op = "scrollToIndex" /\ lastCall'.index \notin Idx)
          => UNCHANGED << scrollTarget, children, refreshTimer,
                          _scrollToBottomDebouncer, recheckTimers, recheck >>]_vars

\* C13: canScrollBottom() answers true exactly when the list is not at the
\* bottom of its scroll range, as canScrollTop() answers true exactly when
\* the scroll offset is positive.
CanScrollBottomAnswers ==
    /\ lastCall.op = "canScrollBottom"
          => lastCall.result = IF ScrollBottomOf(HasScrollOf(C, V), C, V, S) THEN "false" ELSE "true"
    /\ lastCall.op = "canScrollTop"
          => lastCall.result = IF S > 0 THEN "true" ELSE "false"

\* C12: a call of scrollToBottom() made while scroll offset + viewport
\* length >= content length changes no scroll offset, schedules no recheck
\* timer and leaves every timer as it was.
ScrollToBottomAtBottom ==
    [][(lastCall'.op = "scrollToBottom" /\ S + V >= C)
          => UNCHANGED << scrollTarget, _scrollToBottomDebouncer, recheckTimers,
                          recheck, refreshTimer >>]_vars

\* A call at the bottom, made while the recheck timer of an earlier call
\* and the timer of refresh() were pending.
ScrollToBottomAtBottomWitness ==
    /\ lastCall.op = "scrollToBottom"
    /\ lastCall.atBottom
    /\ C > V
    /\ _scrollToBottomDebouncer = "pending"
    /\ refreshTimer # Undefined

\* C17: in every reachable state at most one recheck timer of
\* scrollToBottom() is outstanding, the one of the debouncer in the field.
OneRecheckTimer ==
    recheckTimers = IF _scrollToBottomDebouncer = "pending" THEN 1 ELSE 0

\* scrollToBottom() has scheduled a recheck while the timer of an earlier
\* call was still pending.
OneRecheckTimerWitness ==
    /\ lastCall.op = "scrollToBottom"
    /\ ~lastCall.atBottom
    /\ lastCall.pending
    /\ recheckTimers = 1

\* C18: the continuation of the recheck timer does nothing when it finds
\* the list at its bottom: no scroll, no further timer.  It scrolls to the
\* bottom and schedules the next recheck only when the list is not at its
\* bottom.  So once the content has stopped growing no recheck stays
\* outstanding.
RetryStops ==
    /\ [][(lastCall'.op = "recheck" /\ S + V >= C)
            => UNCHANGED << scrollTarget, _scrollToBottomDebouncer,
                            recheckTimers, refreshTimer >>]_vars
    /\ [][(lastCall'.op = "recheck" /\ scrollTarget' # scrollTarget)
            => (S + V < C /\ S' + V' = C' /\ recheckTimers' = 1)]_vars
    /\ <>[](recheckTimers = 0 /\ ~recheck)

\* The recheck has found the list, grown to its full length, at the bottom
\* and has left no timer behind.
RetryStopsWitness ==
    /\ lastCall.op = "recheck"
    /\ lastCall.atBottom
    /\ C = 1600
    /\ S = C - V
    /\ recheckTimers = 0
    /\ ~recheck

\* viewportExtendedBottom of a run on the current geometry, doubled.
ExtendedBottom2 == 2 * (S + V) + V * prerenderItemsPercentages

\* The run in continuous mode has ended its scan at element j: j is the
\* first element it has left inactive.
StoppedAt(j) ==
    /\ lastRun.op = "refresh" /\ ~nonContinuous
    /\ ~children[j].active
    /\ \A k \in Idx : k < j => children[k].active

\* C14 as stated: after a run in continuous mode every element whose
\* position is below the extended bottom is active.
ContinuousScanComplete ==
    (lastRun.op = "refresh" /\ ~nonContinuous) =>
        \A i \in Idx : 2 * Pos(i) < ExtendedBottom2 => children[i].active

\* C14: a run in continuous mode ends its scan at the first inactive
\* element past the initial items that fails both tests: that element has
\* failed both tests, and every element after it is as it was before the
\* run, whatever its position.
ContinuousScanStops ==
    \A j \in Idx :
        StoppedAt(j) =>
            /\ 2 * Pos(j) >= ExtendedBottom2
            /\ ~InPrerenderCount(j, lastRun.last, prerenderItemsCount)
            /\ \A k \in Idx : k > j => children[k].active = lastRun.active[k]

\* The scan ended at an element, and a later element whose position is
\* below the extended bottom is still inactive.
ContinuousScanStopsWitness ==
    \E j, k \in Idx :
        /\ j < k
        /\ StoppedAt(j)
        /\ ~children[k].active
        /\ 2 * Pos(k) < ExtendedBottom2

\* The elements a run in continuous mode has examined: those with only
\* active elements before them.
Seen == {j \in Idx : \A k \in Idx : k < j => children[k].active}

\* C15: in continuous mode lastVisibleElementInViewport is the highest
\* examined index whose position is below the viewport bottom, elements
\* that were active before the run included; so an inactive element whose
\* index is at most prerenderItemsCount past such an active element is set
\* active, whatever its position.
LastVisibleCountsActive ==
    (lastRun.op = "refresh" /\ ~nonContinuous) =>
        /\ \A j \in Seen : Pos(j) < S + V => lastRun.last >= j
        /\ \A i \in Seen, j \in Idx :
              ( /\ prerenderItemsCount # Undefined
                /\ j < i /\ lastRun.active[j] /\ Pos(j) < S + V
                /\ i <= j + prerenderItemsCount ) => children[i].active

\* C16: a run in continuous mode with prerenderItemsCount 0 sets an
\* inactive element past the initial items active only if its position is
\* below the extended bottom, as a run with prerenderItemsCount unset does;
\* and with prerenderItemsPercentages 0 the extended bottom and top are
\* the viewport bottom and top.
ZeroMarginAddsNothing ==
    /\ ( /\ lastRun.op = "refresh" /\ ~nonContinuous
         /\ prerenderItemsCount \in {0, Undefined} ) =>
            \A i \in Idx : NewlyActive(i) /\ Candidate(i)
                               => 2 * Pos(i) < ExtendedBottom2
    /\ prerenderItemsPercentages = 0 =>
          LET w == Window(V, S, prerenderItemsPercentages)
          IN  /\ w.viewportExtendedBottom2 = w.viewportBottom2
              /\ w.viewportExtendedTop2 = w.viewportTop2

\* C19: in continuous mode, with every element inactive at the start and
\* only the two scans writing active, the active elements are a prefix of
\* the list after any sequence of runs on any geometry.
ActivePrefix ==
    ~nonContinuous =>
        \A i, j \in Idx : (i < j /\ children[j].active) => children[i].active

\* A run in continuous mode has lengthened the prefix an earlier run left,
\* and has stopped before the end of the list.
ActivePrefixWitness ==
    \E i \in Idx :
        /\ i >= 1 /\ i + 1 \in Idx
        /\ lastRun.op = "refresh" /\ ~nonContinuous
        /\ lastRun.active[i - 1]
        /\ NewlyActive(i)
        /\ ~children[i + 1].active

\* C20: scroll-top implies has-scroll, scroll-bottom implies has-scroll,
\* and scroll-top and scroll-bottom are never both set.
FlagsConsistent ==
    /\ _scrollTop => _hasScroll
    /\ _scrollBottom => _hasScroll
    /\ ~(_scrollTop /\ _scrollBottom)

\* A run on a list scrolled to its top, whose content is as long as its
\* viewport: scroll offset 0 and content = viewport + scroll, and neither
\* flag is set.
FlagsConsistentWitness ==
    /\ lastRun.op # "none"
    /\ S = 0 /\ C = V /\ V > 0
    /\ ~_hasScroll /\ ~_scrollTop /\ ~_scrollBottom
====
